---- MODULE Spec2Model ----
(***************************************************************************)
(* Stiffness force module of the Hercules ground motion simulator (GPU     *)
(* variant): selection of the linear elements, the effective stiffness     *)
(* method on the host, the two device kernels and the per-step device      *)
(* driver.                                                                 *)
(*                                                                         *)
(* Numbers.  The code computes in IEEE doubles.  Displacements are kept    *)
(* here as integer multiples of 2^-70, and forces as integer multiples of  *)
(* 2^-74 (one sixteenth of the displacement unit, because 0.5625 = 9/16).  *)
(* With the small magnitudes used every sum, product and division by 3 or  *)
(* 9 below is exact in double arithmetic, so the integers are the values   *)
(* the code computes.  1e-20 = 11.8059... * 2^-70.                         *)
(***************************************************************************)
EXTENDS Integers, Sequences, FiniteSets, TLC

VARIABLES
    pc,                           \* position of the host program
    lenum,                        \* myMesh->lenum
    nonlin1,                      \* isThisElementNonLinear as answered in linear_elements_count
    nonlin2,                      \* isThisElementNonLinear as answered in linear_elements_mapping
    myLinearElementsCount,        \* static int32_t myLinearElementsCount
    myLinearElementsMapper,       \* static int32_t *myLinearElementsMapper (the allocated entries)
    mapperOverrun,                \* indices written beyond the allocation of myLinearElementsMapper
    myLinearElementsMapperDevice, \* static int32_t *myLinearElementsMapperDevice
    calcForceBlockSize,           \* static int calcForceBlockSize
    tm1,                          \* mySolver->tm1, host displacement field
    tm1Device,                    \* device copy of the displacement field
    force,                        \* mySolver->force, host global force
    forceStart,                   \* the force vector before the step
    forceDevice,                  \* mySolver->gpuData->forceDevice
    localForceDevice,             \* per-element force scratch buffer on the device
    calcDone,                     \* tasks of kernelStiffnessCalcLocal that have run
    addDone,                      \* tasks of kernelStiffnessAddLocal that have run
    calcWrote,                    \* scratch entries each kernelStiffnessCalcLocal task wrote
    addWrote,                     \* force entries each kernelStiffnessAddLocal task wrote
    stages,                       \* device operations the step has completed, in order
    failed,                       \* device operations that returned an error
    trPc,                         \* position of a caller of the transform routines
    trIn,                         \* the 24 scalars the caller passes in, node-major
    trBuf,                        \* the 24 scalars the last routine wrote (newU, atu, finalVector)
    trCoef,                       \* the coefficients a, c, b passed to firstVector
    trRes                         \* the 8 corner vectors au adds into (resVec)

vars == <<pc, lenum, nonlin1, nonlin2, myLinearElementsCount, myLinearElementsMapper,
          mapperOverrun, myLinearElementsMapperDevice, calcForceBlockSize, tm1, tm1Device,
          force, forceStart, forceDevice, localForceDevice, calcDone, addDone,
          calcWrote, addWrote, stages, failed, trPc, trIn, trBuf, trCoef, trRes>>

\* state of the program proper and state of a caller of the transform routines
progVars == <<pc, lenum, nonlin1, nonlin2, myLinearElementsCount, myLinearElementsMapper,
              mapperOverrun, myLinearElementsMapperDevice, calcForceBlockSize, tm1, tm1Device,
              force, forceStart, forceDevice, localForceDevice, calcDone, addDone,
              calcWrote, addWrote, stages, failed>>

trVars == <<trPc, trIn, trBuf, trCoef, trRes>>

(***************************************************************************)
(* Bounds of the model.                                                    *)
(***************************************************************************)
MaxElems == 2

(***************************************************************************)
(* Program constants.                                                      *)
(***************************************************************************)
\* #define UNDERFLOW_CAP_STIFFNESS 1e-20, in displacement units of 2^-70 (floor of 11.8059...)
UNDERFLOW_CAP_STIFFNESS == 11

\* A local array (double temp[24], double atu[24], ...): the function f, its
\* entries computed once when the array is filled rather than at every read.
StoredArray(f) == IF f = f THEN f ELSE f

Abs(x) == IF x < 0 THEN -x ELSE x

Vec3Zero == [a \in 0..2 |-> 0]

LocalForceZero == [i \in 0..7 |-> Vec3Zero]

Vec24Zero == [k \in 0..23 |-> 0]

(***************************************************************************)
(* The mesh: lenum hexahedra in a row, neighbours sharing a face.  Corner  *)
(* i of an element sits at (i mod 2, (i div 2) mod 2, i div 4).            *)
(***************************************************************************)
Elems == 0..(lenum - 1)

nharbored == 4 * (lenum + 1)

Nodes == 0..(nharbored - 1)

elemTable == [e \in Elems |-> [i \in 0..7 |->
                 4 * (e + (i % 2)) + 2 * ((i \div 2) % 2) + (i \div 4)]]

(***************************************************************************)
(* Efficient method utilities.                                             *)
(***************************************************************************)
\* vector_is_zero comparing against 0 instead of the cap
vector_is_zero_nocap(v) ==
    IF \E i \in 0..7, j \in 0..2 : Abs(v[i][j]) > 0 THEN 1 ELSE 0

vector_is_zero(v) ==
    IF \E i \in 0..7, j \in 0..2 : Abs(v[i][j]) > UNDERFLOW_CAP_STIFFNESS THEN 1 ELSE 0

\* reformFIdx with the sources of newU[4] and newU[5] exchanged
reformFIdxSlip == <<0, 8, 16, 1, 17, 9, 2, 10, 18, 3, 11, 19,
                    4, 12, 20, 5, 13, 21, 6, 14, 22, 7, 15, 23>>

reformFIdx == <<0, 8, 16, 1, 9, 17, 2, 10, 18, 3, 11, 19,
                4, 12, 20, 5, 13, 21, 6, 14, 22, 7, 15, 23>>

reformF(u) == [k \in 0..23 |-> u[reformFIdx[k + 1]]]

reformUIdx == <<0, 3, 6, 9, 12, 15, 18, 21, 1, 4, 7, 10,
                13, 16, 19, 22, 2, 5, 8, 11, 14, 17, 20, 23>>

reformU(u) == [k \in 0..23 |-> u[reformUIdx[k + 1]]]

\* atuSign with the sign of u[8b+7] in atu[8b+7] turned
atuSignSlip == << <<-1, -1, -1, -1,  1,  1,  1,  1>>,
                  <<-1, -1,  1,  1, -1, -1,  1,  1>>,
                  <<-1,  1, -1,  1, -1,  1, -1,  1>>,
                  << 1,  1, -1, -1, -1, -1,  1,  1>>,
                  << 1, -1,  1, -1, -1,  1, -1,  1>>,
                  << 1, -1, -1,  1,  1, -1, -1,  1>>,
                  <<-1,  1,  1, -1,  1, -1, -1, -1>> >>

\* signs of u[8b+0] .. u[8b+7] in atu[8b+1] .. atu[8b+7]; atu[8b+0] is set to 0
atuSign == << <<-1, -1, -1, -1,  1,  1,  1,  1>>,
              <<-1, -1,  1,  1, -1, -1,  1,  1>>,
              <<-1,  1, -1,  1, -1,  1, -1,  1>>,
              << 1,  1, -1, -1, -1, -1,  1,  1>>,
              << 1, -1,  1, -1, -1,  1, -1,  1>>,
              << 1, -1, -1,  1,  1, -1, -1,  1>>,
              <<-1,  1,  1, -1,  1, -1, -1,  1>> >>

Dot8(sign, u, base) ==
    sign[1] * u[base] + sign[2] * u[base + 1] + sign[3] * u[base + 2] + sign[4] * u[base + 3]
  + sign[5] * u[base + 4] + sign[6] * u[base + 5] + sign[7] * u[base + 6] + sign[8] * u[base + 7]

aTransposeU(un) ==
    LET temp == StoredArray([k \in 0..23 |-> un[k \div 3][k % 3]])
        u    == StoredArray(reformU(temp))
    IN  StoredArray([k \in 0..23 |-> IF k % 8 = 0 THEN 0
                                     ELSE Dot8(atuSign[k % 8], u, 8 * (k \div 8))])

\* the parameters are named as in the code: firstVector(atu, finalVector, a, c, b)
firstVector(atu, a, c, b) ==
    StoredArray([k \in 0..23 |->
        CASE k = 0  -> 0
          [] k = 1  -> b * (atu[19] + atu[1])
          [] k = 2  -> b * (atu[11] + atu[2])
          [] k = 3  -> a * atu[3] + c * (atu[10] + atu[17])
          [] k = 4  -> (b * (atu[13] + atu[22] + 2 * atu[4])) \div 3
          [] k = 5  -> ((a + b) * atu[5] + c * atu[12]) \div 3
          [] k = 6  -> ((a + b) * atu[6] + c * atu[20]) \div 3
          [] k = 7  -> ((a + 2 * b) * atu[7]) \div 9
          [] k = 8  -> 0
          [] k = 9  -> b * (atu[18] + atu[9])
          [] k = 10 -> a * atu[10] + c * (atu[3] + atu[17])
          [] k = 11 -> b * (atu[11] + atu[2])
          [] k = 12 -> ((a + b) * atu[12] + c * atu[5]) \div 3
          [] k = 13 -> (b * (atu[4] + atu[22] + 2 * atu[13])) \div 3
          [] k = 14 -> ((a + b) * atu[14] + c * atu[21]) \div 3
          [] k = 15 -> ((a + 2 * b) * atu[15]) \div 9
          [] k = 16 -> 0
          [] k = 17 -> a * atu[17] + c * (atu[3] + atu[10])
          [] k = 18 -> b * (atu[18] + atu[9])
          [] k = 19 -> b * (atu[19] + atu[1])
          [] k = 20 -> ((a + b) * atu[20] + c * atu[6]) \div 3
          [] k = 21 -> ((a + b) * atu[21] + c * atu[14]) \div 3
          [] k = 22 -> (b * (atu[4] + atu[13] + 2 * atu[22])) \div 3
          [] k = 23 -> ((a + 2 * b) * atu[23]) \div 9])

\* auSign with the sign of u[8b+1] in finVec[8b+3] turned
auSignSlip == << << 1, -1, -1, -1,  1,  1,  1, -1>>,
                 << 1, -1, -1,  1,  1, -1, -1,  1>>,
                 << 1, -1,  1, -1, -1,  1, -1,  1>>,
                 << 1,  1,  1,  1, -1, -1,  1, -1>>,
                 << 1,  1, -1, -1, -1, -1,  1,  1>>,
                 << 1,  1, -1,  1, -1,  1, -1, -1>>,
                 << 1,  1,  1, -1,  1, -1, -1, -1>>,
                 << 1,  1,  1,  1,  1,  1,  1,  1>> >>

\* signs of u[8b+0] .. u[8b+7] in finVec[8b+0] .. finVec[8b+7]
auSign == << << 1, -1, -1, -1,  1,  1,  1, -1>>,
             << 1, -1, -1,  1,  1, -1, -1,  1>>,
             << 1, -1,  1, -1, -1,  1, -1,  1>>,
             << 1, -1,  1,  1, -1, -1,  1, -1>>,
             << 1,  1, -1, -1, -1, -1,  1,  1>>,
             << 1,  1, -1,  1, -1,  1, -1, -1>>,
             << 1,  1,  1, -1,  1, -1, -1, -1>>,
             << 1,  1,  1,  1,  1,  1,  1,  1>> >>

\* au adds into resVec: resVec[j].f[i] += temp[j*3 + i]
au(resVec, u) ==
    LET finVec == StoredArray([k \in 0..23 |-> Dot8(auSign[(k % 8) + 1], u, 8 * (k \div 8))])
        temp   == StoredArray(reformF(finVec))
    IN  StoredArray([j \in 0..7 |-> [i \in 0..2 |-> resVec[j][i] + temp[j * 3 + i]]])


(***************************************************************************)
(* Material table: per element (c1, c2).  Element 0 has c1 = 2, c2 = 1.    *)
(***************************************************************************)
eTable == [e \in Elems |-> [c1 |-> 2 + e, c2 |-> 1 + 2 * e]]

\* gather of the displacements of the eight corners of element eindex
GatherDisp(disp, eindex) == StoredArray([i \in 0..7 |-> disp[elemTable[eindex][i]]])

\* The part both evaluators share: memset of localForce, the near-zero test,
\* the three coefficients (in sixteenths: -0.5625 = -9/16) and the three
\* transform calls.  Returns the eight corner forces.
ElementLocalForce(curDisp, ep) ==
    IF vector_is_zero(curDisp) # 0
    THEN LET first_coeff  == -9 * (ep.c2 + 2 * ep.c1)
             second_coeff == -9 * ep.c2
             third_coeff  == -9 * ep.c1
             atu          == aTransposeU(curDisp)
             firstVec     == firstVector(atu, first_coeff, second_coeff, third_coeff)
         IN  au(LocalForceZero, firstVec)
    ELSE LocalForceZero

(***************************************************************************)
(* Element selector.                                                       *)
(***************************************************************************)
RECURSIVE CountLoop(_, _, _)
\* the loop of linear_elements_count from eindex on, with count so far
CountLoop(answers, eindex, count) ==
    IF eindex >= lenum THEN count
    ELSE CountLoop(answers, eindex + 1,
                   IF answers[eindex] = FALSE THEN count + 1 ELSE count)

RECURSIVE MappingLoopStoresCount(_, _, _)
\* MappingLoop storing count where it should store eindex
MappingLoopStoresCount(answers, eindex, stored) ==
    IF eindex >= lenum THEN stored
    ELSE MappingLoopStoresCount(answers, eindex + 1,
                                IF answers[eindex] = FALSE THEN Append(stored, Len(stored))
                                                           ELSE stored)

RECURSIVE MappingLoop(_, _, _)
\* the loop of linear_elements_mapping from eindex on: the sequence of values
\* stored, the k-th of them at myLinearElementsMapper[k-1]
MappingLoop(answers, eindex, stored) ==
    IF eindex >= lenum THEN stored
    ELSE MappingLoop(answers, eindex + 1,
                     IF answers[eindex] = FALSE THEN Append(stored, eindex) ELSE stored)

\* value of an allocated entry that was never stored to
Unset == -1

linear_elements_count ==
    /\ pc = "start"
    /\ LET count == CountLoop(nonlin1, 0, 0)
       IN  IF count > lenum
           THEN /\ pc' = "aborted"
                /\ UNCHANGED myLinearElementsCount
           ELSE /\ myLinearElementsCount' = count
                /\ pc' = "counted"
    /\ UNCHANGED <<lenum, nonlin1, nonlin2, myLinearElementsMapper, mapperOverrun,
                   myLinearElementsMapperDevice, calcForceBlockSize, tm1, tm1Device,
                   force, forceStart, forceDevice, localForceDevice, calcDone, addDone,
                   calcWrote, addWrote, stages, failed>>
    /\ UNCHANGED trVars

\* XMALLOC_VAR_N allocates myLinearElementsCount entries; the loop stores at
\* index count for every linear element it meets, whatever the allocation.
\* Stores beyond the allocation are undefined behaviour: the process is
\* either killed by the store or runs on to the count check.
linear_elements_mapping ==
    /\ pc = "counted"
    /\ LET stored == MappingLoop(nonlin2, 0, <<>>)
           count  == Len(stored)
       IN  /\ myLinearElementsMapper' =
                  [k \in 0..(myLinearElementsCount - 1) |->
                      IF k < count THEN stored[k + 1] ELSE Unset]
           /\ mapperOverrun' = {k \in 0..(count - 1) : k >= myLinearElementsCount}
           /\ IF mapperOverrun' # {}
              THEN pc' \in {"crashed", "aborted"}
              ELSE IF count # myLinearElementsCount
                   THEN pc' = "aborted"
                   ELSE pc' = "mapped"
    /\ UNCHANGED <<lenum, nonlin1, nonlin2, myLinearElementsCount,
                   myLinearElementsMapperDevice, calcForceBlockSize, tm1, tm1Device,
                   force, forceStart, forceDevice, localForceDevice, calcDone, addDone,
                   calcWrote, addWrote, stages, failed>>
    /\ UNCHANGED trVars


(***************************************************************************)
(* Host evaluator, effective method.                                       *)
(***************************************************************************)
\* AddToNodalForce with = where it should have +=
AddToNodalForceOverwrite(nodalForce, localForce) ==
    [k \in 0..2 |-> localForce[k]]

\* nodalForce->f[k] += localForce.f[k], k = 0, 1, 2
AddToNodalForce(nodalForce, localForce) ==
    [k \in 0..2 |-> nodalForce[k] + localForce[k]]

RECURSIVE ScatterLoop(_, _, _, _)
\* the second corner loop of compute_addforce_effective_cpu, from corner i on
ScatterLoop(f, eindex, localForce, i) ==
    IF i >= 8 THEN f
    ELSE LET lnid == elemTable[eindex][i]
         IN  ScatterLoop([f EXCEPT ![lnid] = AddToNodalForce(f[lnid], localForce[i])],
                         eindex, localForce, i + 1)

RECURSIVE EffectiveCpuLoop(_, _)
\* the element loop of compute_addforce_effective_cpu, from lin_eindex on
EffectiveCpuLoop(f, lin_eindex) ==
    IF lin_eindex >= myLinearElementsCount THEN f
    ELSE LET eindex     == myLinearElementsMapper[lin_eindex]
             curDisp    == GatherDisp(tm1, eindex)
             localForce == ElementLocalForce(curDisp, eTable[eindex])
         IN  EffectiveCpuLoop(ScatterLoop(f, eindex, localForce, 0), lin_eindex + 1)

compute_addforce_effective_cpu ==
    /\ pc = "ready"
    /\ force' = EffectiveCpuLoop(force, 0)
    /\ pc' = "returned"
    /\ UNCHANGED <<lenum, nonlin1, nonlin2, myLinearElementsCount, myLinearElementsMapper,
                   mapperOverrun, myLinearElementsMapperDevice, calcForceBlockSize, tm1,
                   tm1Device, forceStart, forceDevice, localForceDevice, calcDone, addDone,
                   calcWrote, addWrote, stages, failed>>
    /\ UNCHANGED trVars

(***************************************************************************)
(* Device kernels.  A task is one thread; its index is                     *)
(* blockIdx.x * blockDim.x + threadIdx.x.                                  *)
(***************************************************************************)
\* entries of the scratch buffer: 8 fvector_t per element of the mesh
ScratchIdx == 0..(8 * lenum - 1)

\* thread indices of a launch of gridsize = n / blocksize + 1 blocks of blocksize threads
LaunchThreads(n, blocksize) == 0..((n \div blocksize + 1) * blocksize - 1)

\* CalcSliceBase with a stride of 4 where it should be 8
CalcSliceBaseStride4(lin_eindex) == lin_eindex * 4

\* localForce = &(localForceDevice[lin_eindex*8])
CalcSliceBase(lin_eindex) == lin_eindex * 8

\* the scratch entries one task of kernelStiffnessCalcLocal writes (memset and au)
CalcWrites(lin_eindex) ==
    IF lin_eindex >= myLinearElementsCount THEN {}
    ELSE {CalcSliceBase(lin_eindex) + i : i \in 0..7}

\* one task of kernelStiffnessCalcLocal: the scratch buffer after it
kernelStiffnessCalcLocal(lin_eindex, scratch) ==
    IF lin_eindex >= myLinearElementsCount THEN scratch
    ELSE LET eindex     == myLinearElementsMapperDevice[lin_eindex]
             curDisp    == GatherDisp(tm1Device, eindex)
             localForce == ElementLocalForce(curDisp, eTable[eindex])
             base       == CalcSliceBase(lin_eindex)
         IN  [k \in ScratchIdx |->
                 IF k \in CalcWrites(lin_eindex) THEN localForce[k - base] ELSE scratch[k]]

\* Reverse adjacency table: for each node the (element, corner) pairs of the
\* mesh that reference it, by element and corner.
AllCorners == [k \in 1..(8 * lenum) |-> [elemid |-> (k - 1) \div 8, offset |-> (k - 1) % 8]]

reverseLookup(n) ==
    LET Refers(p) == elemTable[p.elemid][p.offset] = n
    IN  SelectSeq(AllCorners, Refers)

RECURSIVE AddLocalLoop(_, _, _, _)
\* the loop of kernelStiffnessAddLocal over the entries of revp, from i on
\* (i counts from 0 as in the code; revp is a sequence)
AddLocalLoop(nodalForce, revp, scratch, i) ==
    IF i >= Len(revp) THEN nodalForce
    ELSE LET noffset == revp[i + 1].offset
             base    == revp[i + 1].elemid * 8
         IN  AddLocalLoop(AddToNodalForce(nodalForce, scratch[base + noffset]),
                          revp, scratch, i + 1)

\* the force entries one task of kernelStiffnessAddLocal writes
AddWrites(lnid) ==
    IF lnid >= nharbored THEN {}
    ELSE IF Len(reverseLookup(lnid)) = 0 THEN {} ELSE {lnid}

\* one task of kernelStiffnessAddLocal: the device force buffer after it
kernelStiffnessAddLocal(lnid, fdev, scratch) ==
    IF lnid >= nharbored THEN fdev
    ELSE [fdev EXCEPT ![lnid] = AddLocalLoop(fdev[lnid], reverseLookup(lnid), scratch, 0)]


RECURSIVE RunCalcKernel(_, _, _)
\* the scratch buffer after every task 0 .. last of kernelStiffnessCalcLocal
RunCalcKernel(t, last, scratch) ==
    IF t > last THEN scratch
    ELSE RunCalcKernel(t + 1, last, kernelStiffnessCalcLocal(t, scratch))

(***************************************************************************)
(* stiffness_init after the two selector calls.                            *)
(***************************************************************************)
\* block sizes the tuning probe gpu_get_blocksize may return
BlockSizes == {1, 2}

cudaMallocMapper ==
    /\ pc = "mapped"
    /\ \E ok \in BOOLEAN :
          IF ok THEN /\ pc' = "allocated"
                     /\ UNCHANGED failed
                ELSE /\ pc' = "aborted"
                     /\ failed' = failed \cup {"cudaMalloc mapper"}
    /\ UNCHANGED <<lenum, nonlin1, nonlin2, myLinearElementsCount, myLinearElementsMapper,
                   mapperOverrun, myLinearElementsMapperDevice, calcForceBlockSize, tm1,
                   tm1Device, force, forceStart, forceDevice, localForceDevice, calcDone,
                   addDone, calcWrote, addWrote, stages>>
    /\ UNCHANGED trVars

cudaMemcpyMapper ==
    /\ pc = "allocated"
    /\ \E ok \in BOOLEAN :
          IF ok THEN /\ myLinearElementsMapperDevice' = myLinearElementsMapper
                     /\ pc' = "copied"
                     /\ UNCHANGED failed
                ELSE /\ pc' = "aborted"
                     /\ failed' = failed \cup {"cudaMemcpy mapper"}
                     /\ UNCHANGED myLinearElementsMapperDevice
    /\ UNCHANGED <<lenum, nonlin1, nonlin2, myLinearElementsCount, myLinearElementsMapper,
                   mapperOverrun, calcForceBlockSize, tm1, tm1Device, force, forceStart,
                   forceDevice, localForceDevice, calcDone, addDone, calcWrote, addWrote,
                   stages>>
    /\ UNCHANGED trVars

gpu_get_blocksize ==
    /\ pc = "copied"
    /\ calcForceBlockSize' \in BlockSizes
    /\ pc' = "ready"
    /\ UNCHANGED <<lenum, nonlin1, nonlin2, myLinearElementsCount, myLinearElementsMapper,
                   mapperOverrun, myLinearElementsMapperDevice, tm1, tm1Device, force,
                   forceStart, forceDevice, localForceDevice, calcDone, addDone, calcWrote,
                   addWrote, stages, failed>>
    /\ UNCHANGED trVars

(***************************************************************************)
(* compute_addforce_effective_gpu, one action per device operation.  The   *)
(* return values of the two cudaMemcpy calls are not looked at, and        *)
(* cudaGetLastError() before the launch resets the error of the first.     *)
(***************************************************************************)
StepCopyForceToDevice ==
    /\ pc = "ready"
    /\ \E ok \in BOOLEAN :
          IF ok THEN /\ forceDevice' = force
                     /\ UNCHANGED failed
                ELSE /\ failed' = failed \cup {"cudaMemcpy force to device"}
                     /\ UNCHANGED forceDevice
    /\ stages' = Append(stages, "copy force to device")
    /\ pc' = "copied in"
    /\ UNCHANGED <<lenum, nonlin1, nonlin2, myLinearElementsCount, myLinearElementsMapper,
                   mapperOverrun, myLinearElementsMapperDevice, calcForceBlockSize, tm1,
                   tm1Device, force, forceStart, localForceDevice, calcDone, addDone,
                   calcWrote, addWrote>>
    /\ UNCHANGED trVars

StepLaunchCalc ==
    /\ pc = "copied in"
    /\ \E ok \in BOOLEAN :
          IF ok THEN /\ localForceDevice' =
                            RunCalcKernel(0, (lenum \div calcForceBlockSize + 1)
                                                * calcForceBlockSize - 1,
                                          localForceDevice)
                     /\ stages' = Append(stages, "launch kernelStiffnessCalcLocal")
                     /\ pc' = "launched"
                     /\ UNCHANGED failed
                ELSE /\ failed' = failed \cup {"launch kernelStiffnessCalcLocal"}
                     /\ pc' = "aborted"
                     /\ UNCHANGED <<localForceDevice, stages>>
    /\ UNCHANGED <<lenum, nonlin1, nonlin2, myLinearElementsCount, myLinearElementsMapper,
                   mapperOverrun, myLinearElementsMapperDevice, calcForceBlockSize, tm1,
                   tm1Device, force, forceStart, forceDevice, calcDone, addDone,
                   calcWrote, addWrote>>
    /\ UNCHANGED trVars

StepCopyForceToHost ==
    /\ pc = "launched"
    /\ \E ok \in BOOLEAN :
          IF ok THEN /\ force' = forceDevice
                     /\ UNCHANGED failed
                ELSE /\ failed' = failed \cup {"cudaMemcpy force to host"}
                     /\ UNCHANGED force
    /\ stages' = Append(stages, "copy force to host")
    /\ pc' = "returned"
    /\ UNCHANGED <<lenum, nonlin1, nonlin2, myLinearElementsCount, myLinearElementsMapper,
                   mapperOverrun, myLinearElementsMapperDevice, calcForceBlockSize, tm1,
                   tm1Device, forceStart, forceDevice, localForceDevice, calcDone, addDone,
                   calcWrote, addWrote>>
    /\ UNCHANGED trVars

(***************************************************************************)
(* The two kernels task by task, run on the inputs of the host evaluator   *)
(* once it has returned: first every task of kernelStiffnessCalcLocal, in  *)
(* any order, then the tasks of kernelStiffnessAddLocal, in ascending or   *)
(* in descending order of their index, which runs every two of them in     *)
(* both orders.                                                            *)
(***************************************************************************)
CalcThreads == LaunchThreads(lenum, calcForceBlockSize)

AddThreads == LaunchThreads(nharbored, calcForceBlockSize)

SetMin(S) == CHOOSE x \in S : \A y \in S : x <= y

SetMax(S) == CHOOSE x \in S : \A y \in S : x >= y

CalcTask(t) ==
    /\ pc = "returned"
    /\ t \in CalcThreads \ calcDone
    /\ localForceDevice' = kernelStiffnessCalcLocal(t, localForceDevice)
    /\ calcWrote' = calcWrote \cup {<<t, k>> : k \in CalcWrites(t)}
    /\ calcDone' = calcDone \cup {t}
    /\ UNCHANGED <<pc, lenum, nonlin1, nonlin2, myLinearElementsCount,
                   myLinearElementsMapper, mapperOverrun, myLinearElementsMapperDevice,
                   calcForceBlockSize, tm1, tm1Device, force, forceStart, forceDevice,
                   addDone, addWrote, stages, failed>>
    /\ UNCHANGED trVars

AddTask(lnid) ==
    /\ pc = "returned"
    /\ calcDone = CalcThreads
    /\ AddThreads \ addDone # {}
    /\ \/ /\ SetMax(AddThreads) \notin addDone \/ AddThreads \ addDone = {SetMin(AddThreads)}
          /\ lnid = SetMin(AddThreads \ addDone)
       \/ /\ SetMin(AddThreads) \notin addDone
          /\ lnid = SetMax(AddThreads \ addDone)
    /\ forceDevice' = kernelStiffnessAddLocal(lnid, forceDevice, localForceDevice)
    /\ addWrote' = addWrote \cup {<<lnid, n>> : n \in AddWrites(lnid)}
    /\ addDone' = addDone \cup {lnid}
    /\ UNCHANGED <<pc, lenum, nonlin1, nonlin2, myLinearElementsCount,
                   myLinearElementsMapper, mapperOverrun, myLinearElementsMapperDevice,
                   calcForceBlockSize, tm1, tm1Device, force, forceStart,
                   localForceDevice, calcDone, calcWrote, stages, failed>>
    /\ UNCHANGED trVars

(***************************************************************************)
(* Inputs.                                                                 *)
(***************************************************************************)
\* displacement fields: v0 at component a0 of node n0, a background of
\* 0, g or 2g (all below the underflow cap) elsewhere.  7 is below the cap,
\* 12 and -12 are above it.  DispFields puts v0 at every node in turn, on
\* the axis n0 mod 3.
DispField(n0, a0, v0, g) ==
    [n \in Nodes |-> [a \in 0..2 |->
        IF n = n0 /\ a = a0 THEN v0 ELSE g * ((n + a) % 3)]]

DispCases == {<<12, 0>>, <<-12, 3>>, <<7, 3>>}

Backgrounds == {0, 3}

DispFields == {DispField(n0, n0 % 3, c[1], c[2]) : n0 \in Nodes, c \in DispCases}

DispFieldsFew == {DispField(n0, 0, v0, g) :
                     n0 \in {0, nharbored - 1}, v0 \in {7, 12}, g \in Backgrounds}

ZeroField == [n \in Nodes |-> Vec3Zero]

ForceBefore == [n \in Nodes |-> [k \in 0..2 |-> n + 1 - 2 * k]]

\* contents of device memory that was allocated and never written
ScratchGarbage == {0, 16}

ScratchFill(g) == [k \in ScratchIdx |-> [a \in 0..2 |-> g]]

\* no caller of the transform routines on their own
TrIdle ==
    /\ trPc = "idle"
    /\ trIn = Vec24Zero
    /\ trBuf = Vec24Zero
    /\ trCoef = [a |-> 0, c |-> 0, b |-> 0]
    /\ trRes = LocalForceZero

Init ==
    /\ pc = "start"
    /\ lenum \in 1..MaxElems
    /\ nonlin1 \in [Elems -> BOOLEAN]
    /\ nonlin2 \in [Elems -> BOOLEAN]
    /\ myLinearElementsCount = 0
    /\ myLinearElementsMapper = <<>>
    /\ mapperOverrun = {}
    /\ myLinearElementsMapperDevice = <<>>
    /\ calcForceBlockSize = 0
    /\ tm1 \in DispFieldsFew
    /\ tm1Device \in {tm1, ZeroField}
    /\ force = ForceBefore
    /\ forceStart = ForceBefore
    /\ forceDevice = ZeroField
    /\ localForceDevice \in {ScratchFill(g) : g \in ScratchGarbage}
    /\ calcDone = {}
    /\ addDone = {}
    /\ calcWrote = {}
    /\ addWrote = {}
    /\ stages = <<>>
    /\ failed = {}
    /\ TrIdle

Next ==
    \/ linear_elements_count
    \/ linear_elements_mapping
    \/ cudaMallocMapper
    \/ cudaMemcpyMapper
    \/ gpu_get_blocksize
    \/ compute_addforce_effective_cpu
    \/ StepCopyForceToDevice
    \/ StepLaunchCalc
    \/ StepCopyForceToHost

Spec == Init /\ [][Next]_vars

(***************************************************************************)
(* Force evaluation after a set-up that went through: the host evaluator,  *)
(* then the two kernels on the same displacement field and the same        *)
(* starting force.                                                         *)
(***************************************************************************)
InitForce ==
    /\ pc = "ready"
    /\ lenum \in 1..MaxElems
    /\ nonlin1 \in [Elems -> BOOLEAN]
    /\ nonlin2 = nonlin1
    /\ myLinearElementsCount = CountLoop(nonlin1, 0, 0)
    /\ myLinearElementsMapper =
          [k \in 0..(myLinearElementsCount - 1) |-> MappingLoop(nonlin2, 0, <<>>)[k + 1]]
    /\ mapperOverrun = {}
    /\ myLinearElementsMapperDevice = myLinearElementsMapper
    /\ calcForceBlockSize \in BlockSizes
    /\ tm1 \in DispFields
    /\ tm1Device = tm1
    /\ force = ForceBefore
    /\ forceStart = ForceBefore
    /\ forceDevice = ForceBefore
    /\ localForceDevice \in {ScratchFill(g) : g \in ScratchGarbage}
    /\ calcDone = {}
    /\ addDone = {}
    /\ calcWrote = {}
    /\ addWrote = {}
    /\ stages = <<>>
    /\ failed = {}
    /\ TrIdle

NextForce ==
    \/ compute_addforce_effective_cpu
    \/ \E t \in CalcThreads : CalcTask(t)
    \/ \E lnid \in AddThreads : AddTask(lnid)

SpecForce == InitForce /\ [][NextForce]_vars

(***************************************************************************)
(* The transform routines on their own: a caller hands 24 scalars to       *)
(* reformU and the result to reformF, or 8 corner vectors to aTransposeU,  *)
(* the result to firstVector (or past it) and on to au with a zeroed       *)
(* resVec, as the two evaluators do after their memset.                    *)
(***************************************************************************)
\* largest magnitude of the scalars handed in
MaxAmp == 2

Amps == (-MaxAmp..MaxAmp) \ {0}

\* one scalar set; a ramp of 24 different values; every corner moved alike
\* (all axes, one axis); a field without pattern; a field whose corners sum
\* to zero in each axis
TrInputs ==
    {[k \in 0..23 |-> IF k = k0 THEN v ELSE 0] : k0 \in 0..23, v \in Amps}
      \cup {[k \in 0..23 |-> v * (k + 1)] : v \in Amps}
      \cup {[k \in 0..23 |-> v] : v \in Amps}
      \cup {[k \in 0..23 |-> IF k % 3 = a0 THEN v ELSE 0] : a0 \in 0..2, v \in Amps}
      \cup {[k \in 0..23 |-> v * (((k * k) % 7) - 3)] : v \in Amps}
      \cup {[k \in 0..23 |-> IF (k \div 3) % 2 = 0 THEN v * (1 + (k % 3))
                                                    ELSE -v * (1 + (k % 3))] : v \in Amps}

\* coefficients in sixteenths: equal ones, those of (c1, c2) = (2, 1) and
\* (3, 3) as compute_addforce_effective_cpu forms them, and one of mixed sign
TrCoefs == {[a |-> 9,   c |-> 9,   b |-> 9],
            [a |-> -18, c |-> -18, b |-> -18],
            [a |-> -45, c |-> -9,  b |-> -18],
            [a |-> -81, c |-> -27, b |-> -27],
            [a |-> 27,  c |-> -9,  b |-> 18]}

\* fvector_t un[8] of the 24 scalars: temp[i*3 + j] = un[i].f[j]
TrCorners(x) == [i \in 0..7 |-> [j \in 0..2 |-> x[i * 3 + j]]]

TrReformU ==
    /\ trPc = "input"
    /\ trBuf' = reformU(trIn)
    /\ trPc' = "reordered"
    /\ UNCHANGED <<trIn, trCoef, trRes>>
    /\ UNCHANGED progVars

TrReformF ==
    /\ trPc = "reordered"
    /\ trBuf' = reformF(trBuf)
    /\ trPc' = "restored"
    /\ UNCHANGED <<trIn, trCoef, trRes>>
    /\ UNCHANGED progVars

TrATransposeU ==
    /\ trPc = "input"
    /\ trBuf' = aTransposeU(TrCorners(trIn))
    /\ trPc' = "transformed"
    /\ UNCHANGED <<trIn, trCoef, trRes>>
    /\ UNCHANGED progVars

TrFirstVector ==
    /\ trPc = "transformed"
    /\ trBuf' = firstVector(trBuf, trCoef.a, trCoef.c, trCoef.b)
    /\ trPc' = "combined"
    /\ UNCHANGED <<trIn, trCoef, trRes>>
    /\ UNCHANGED progVars

\* au on what firstVector wrote ("added") or on what aTransposeU wrote ("inverted")
TrAu ==
    /\ trPc \in {"transformed", "combined"}
    /\ trRes' = au(trRes, trBuf)
    /\ trPc' = IF trPc = "combined" THEN "added" ELSE "inverted"
    /\ UNCHANGED <<trIn, trBuf, trCoef>>
    /\ UNCHANGED progVars

InitTransform ==
    /\ pc = "idle"
    /\ lenum = 1
    /\ nonlin1 = [e \in Elems |-> FALSE]
    /\ nonlin2 = nonlin1
    /\ myLinearElementsCount = 0
    /\ myLinearElementsMapper = <<>>
    /\ mapperOverrun = {}
    /\ myLinearElementsMapperDevice = <<>>
    /\ calcForceBlockSize = 0
    /\ tm1 = ZeroField
    /\ tm1Device = ZeroField
    /\ force = ZeroField
    /\ forceStart = ZeroField
    /\ forceDevice = ZeroField
    /\ localForceDevice = ScratchFill(0)
    /\ calcDone = {}
    /\ addDone = {}
    /\ calcWrote = {}
    /\ addWrote = {}
    /\ stages = <<>>
    /\ failed = {}
    /\ trPc = "input"
    /\ trIn \in TrInputs
    /\ trBuf = Vec24Zero
    /\ trCoef \in TrCoefs
    /\ trRes = LocalForceZero

NextTransform ==
    \/ TrReformU
    \/ TrReformF
    \/ TrATransposeU
    \/ TrFirstVector
    \/ TrAu

SpecTransform == InitTransform /\ [][NextTransform]_vars


(***************************************************************************)
(* Properties.                                                             *)
(***************************************************************************)
\* elements the first pass found linear
LinearSet == {e \in Elems : nonlin1[e] = FALSE}

\* (position in the mapping, corner) pairs of linear elements that reference node n
LinearCorners(n) ==
    {p \in (0..(myLinearElementsCount - 1)) \X (0..7) :
        elemTable[myLinearElementsMapper[p[1]]][p[2]] = n}

\* local force of the corner p[2] of the linear element at position p[1]
CornerForce(p) ==
    LET eindex == myLinearElementsMapper[p[1]]
    IN  ElementLocalForce(GatherDisp(tm1, eindex), eTable[eindex])[p[2]]

RECURSIVE SumOfCornerForces(_, _)
SumOfCornerForces(S, a) ==
    IF S = {} THEN 0
    ELSE LET p == CHOOSE q \in S : TRUE
         IN  CornerForce(p)[a] + SumOfCornerForces(S \ {p}, a)

\* every gathered displacement component of element eindex is below 1e-20 in magnitude
BelowCap(disp, eindex) ==
    \A i \in 0..7, a \in 0..2 : Abs(disp[elemTable[eindex][i]][a]) <= UNDERFLOW_CAP_STIFFNESS

KernelsFinished ==
    /\ pc = "returned"
    /\ calcDone = CalcThreads
    /\ addDone = AddThreads

\* C1: once every task of kernelStiffnessCalcLocal and then every task of
\* kernelStiffnessAddLocal has run, the device force of every node equals the
\* force compute_addforce_effective_cpu left on the host, both having started
\* from the same force vector and the same displacement field.
C1_KernelsEqualHostScatter ==
    KernelsFinished => \A n \in Nodes : forceDevice[n] = force[n]

C4_NearZeroElementAddsNothing ==
    /\ \A k \in 0..(myLinearElementsCount - 1) :
          LET eindex == myLinearElementsMapper[k]
          IN  BelowCap(tm1, eindex) =>
                 ElementLocalForce(GatherDisp(tm1, eindex), eTable[eindex]) = LocalForceZero
    /\ pc = "returned" =>
          \A n \in Nodes :
             (\A p \in LinearCorners(n) : BelowCap(tm1, myLinearElementsMapper[p[1]]))
                => force[n] = forceStart[n]
    /\ \A k \in calcDone :
          (k < myLinearElementsCount /\ BelowCap(tm1Device, myLinearElementsMapperDevice[k]))
             => \A i \in 0..7 : localForceDevice[8 * k + i] = Vec3Zero

C4_Witness ==
    /\ pc = "returned"
    /\ force # forceStart
    /\ \E k \in calcDone :
          /\ k < myLinearElementsCount
          /\ BelowCap(tm1, myLinearElementsMapper[k])
          /\ \E i \in 0..7, a \in 0..2 : tm1[elemTable[myLinearElementsMapper[k]][i]][a] # 0
          /\ \E j \in ScratchIdx : localForceDevice[j] # Vec3Zero

\* C6: no location is written by two tasks of one kernel: a task of
\* kernelStiffnessCalcLocal with index t below the bound writes the scratch
\* entries 8t .. 8t+7 and nothing else, a task of kernelStiffnessAddLocal with
\* index below the bound writes the force entry of its own node and nothing
\* else, a task whose index is not below the bound writes nothing, and what no
\* task wrote is unchanged.
C6_TasksWriteDisjointLocations ==
    /\ \A w1, w2 \in calcWrote : w1[2] = w2[2] => w1[1] = w2[1]
    /\ \A t \in calcDone :
          {w[2] : w \in {x \in calcWrote : x[1] = t}} =
             (IF t < myLinearElementsCount THEN (8 * t)..(8 * t + 7) ELSE {})
    /\ \A k \in ScratchIdx :
          (\A w \in calcWrote : w[2] # k) =>
             \E g \in ScratchGarbage : localForceDevice[k] = [a \in 0..2 |-> g]
    /\ \A w1, w2 \in addWrote : w1[2] = w2[2] => w1[1] = w2[1]
    /\ \A t \in addDone :
          {w[2] : w \in {x \in addWrote : x[1] = t}} = (IF t < nharbored THEN {t} ELSE {})
    /\ \A n \in Nodes :
          (\A w \in addWrote : w[2] # n) => forceDevice[n] = forceStart[n]

C6_Witness ==
    /\ KernelsFinished
    /\ myLinearElementsCount >= 2
    /\ \E t \in calcDone : t >= myLinearElementsCount
    /\ \E t \in addDone : t >= nharbored
    /\ forceDevice # forceStart

\* C7: a step of compute_addforce_effective_gpu that returns has performed, in
\* this order and none skipped: the copy of the displacement field to the
\* device, the launch of the per-element kernel, the launch of the per-node
\* reduction kernel, the copy of the force buffer to the host; and the device
\* displacement the kernel read is the host displacement of the step.
C7_StepStagesInOrder ==
    (pc = "returned" /\ stages # <<>>) =>
        /\ stages = <<"copy displacement to device",
                      "launch kernelStiffnessCalcLocal",
                      "launch kernelStiffnessAddLocal",
                      "copy force to host">>
        /\ tm1Device = tm1

\* C8: once a device allocation, copy or launch has failed, in stiffness_init
\* or in compute_addforce_effective_gpu, the process is in the fatal abort
\* state: it never runs on past the failed operation.
C8_DeviceFailureIsFatal ==
    failed # {} => pc = "aborted"

\* C9: one call of compute_addforce_effective_cpu adds to the force of each
\* node the local corner forces of every (linear element, corner) that
\* references the node, leaves the force of a node no linear element
\* references unchanged, and changes neither the displacement field nor the
\* mapping nor the linear element count.
C9_HostCallAccumulates ==
    [][(pc = "ready" /\ pc' = "returned") =>
          /\ \A n \in Nodes, a \in 0..2 :
                force'[n][a] = force[n][a] + SumOfCornerForces(LinearCorners(n), a)
          /\ \A n \in Nodes : LinearCorners(n) = {} => force'[n] = force[n]
          /\ tm1' = tm1
          /\ myLinearElementsMapper' = myLinearElementsMapper
          /\ myLinearElementsCount' = myLinearElementsCount]_vars

C9_Witness ==
    /\ pc = "returned"
    /\ \E n \in Nodes : LinearCorners(n) = {}
    /\ \E n \in Nodes : Cardinality(LinearCorners(n)) = 1 /\ force[n] # forceStart[n]

\* C10: linear_elements_mapping ends in the fatal abort state whenever the
\* number of indices it stored differs from the count linear_elements_count
\* stored, and goes on normally only when the two are equal.
C10_CountMismatchAborts ==
    LET filled == Len(MappingLoop(nonlin2, 0, <<>>))
    IN  pc \notin {"start", "counted"} =>
           /\ filled # myLinearElementsCount => pc = "aborted"
           /\ pc \notin {"aborted", "crashed"} => filled = myLinearElementsCount

\* sum over the eight corners of component i of the 24 node-major scalars x
CornerSum24(x, i) ==
    x[i] + x[3 + i] + x[6 + i] + x[9 + i] + x[12 + i] + x[15 + i] + x[18 + i] + x[21 + i]

\* C11: reformU moves component a of node n from position 3n+a to position
\* 8a+n, and reformF applied to what reformU wrote gives back the 24 scalars
\* handed in, each at its place.
C11_ReformRoundTrip ==
    /\ trPc = "reordered" =>
          \A n \in 0..7, a \in 0..2 : trBuf[8 * a + n] = trIn[3 * n + a]
    /\ trPc = "restored" => trBuf = trIn

C11_Witness ==
    /\ trPc = "restored"
    /\ \A j, k \in 0..23 : j # k => trIn[j] # trIn[k]

\* C12: with a = b = c, aTransposeU, firstVector and au applied to a zeroed
\* result give the 24 scalars handed in times one scale factor that is not
\* zero: the result is parallel to the input, and not zero unless the input is.
C12_RoundTripRecoversInput ==
    (trPc = "added" /\ trCoef.a = trCoef.b /\ trCoef.b = trCoef.c) =>
        /\ \A j, k \in 0..23 :
              trRes[j \div 3][j % 3] * trIn[k] = trRes[k \div 3][k % 3] * trIn[j]
        /\ trIn # Vec24Zero => trRes # LocalForceZero

\* C12 as amended: aTransposeU followed at once by au, on a zeroed result,
\* gives for every corner and axis 8 times the scalar handed in minus the sum
\* of that axis over the eight corners; so it gives back the input times 8
\* when each axis sums to zero over the corners.
C12_RoundTripRemovesCornerSum ==
    trPc = "inverted" =>
        /\ \A n \in 0..7, i \in 0..2 :
              trRes[n][i] = 8 * trIn[3 * n + i] - CornerSum24(trIn, i)
        /\ (\A i \in 0..2 : CornerSum24(trIn, i) = 0) =>
              \A n \in 0..7, i \in 0..2 : trRes[n][i] = 8 * trIn[3 * n + i]

C12_Witness ==
    /\ trPc = "inverted"
    /\ \E i \in 0..2 : CornerSum24(trIn, i) # 0
    /\ \E n \in 0..7, i \in 0..2 : trRes[n][i] # 0 /\ trRes[n][i] # 8 * trIn[3 * n + i]

\* C13: linear_elements_mapping stores into the mapping array only at indices
\* below the allocated size myLinearElementsCount, whatever the predicate
\* answers in the second pass: no store lies beyond the allocation, and the
\* process is never killed by such a store before the count check.
C13_MapperWritesInBounds ==
    /\ mapperOverrun = {}
    /\ pc # "crashed"

\* C14: after aTransposeU and after firstVector the first entry of each axis
\* block is zero, and the local force au then adds to a zeroed local force
\* sums to zero over the eight corners in each of the three axes, whatever
\* the corner displacements and the coefficients.
C14_LocalForceSumsToZero ==
    /\ trPc \in {"transformed", "combined"} =>
          trBuf[0] = 0 /\ trBuf[8] = 0 /\ trBuf[16] = 0
    /\ trPc = "added" =>
          \A i \in 0..2 :
             trRes[0][i] + trRes[1][i] + trRes[2][i] + trRes[3][i]
               + trRes[4][i] + trRes[5][i] + trRes[6][i] + trRes[7][i] = 0

C14_Witness ==
    /\ trPc = "added"
    /\ trCoef.a # trCoef.b
    /\ trCoef.b # trCoef.c
    /\ \A i \in 0..2 : \E n \in 0..7 : trRes[n][i] # 0

====
